---- MODULE Spec2Model ----
(***************************************************************************)
(* Model of the configuration-path and watch-translation layer of voltctl  *)
(* (package config: ConfigManager / ComponentConfig) and of the loglevel   *)
(* helpers built on it (package commands).                                 *)
(*                                                                         *)
(* Strings are sequences of one-character strings, so that prefix          *)
(* trimming, quote trimming and concatenation are computed as the Go code  *)
(* computes them.                                                          *)
(***************************************************************************)
EXTENDS Integers, Sequences, FiniteSets, TLC

VARIABLES
    cm,        \* the ConfigManager: KvStoreConfigPrefix and backend settings
    kv,        \* contents of the key-value store: full key -> raw value
    saved,     \* history: <<component, configType, attribute>> -> value of the most recent successful Save
    call,      \* the last handle / helper call with its arguments and its results
    handle,    \* the watching ComponentConfig: label, type and its two channel fields
    chans,     \* heap of channels: channel id -> [buf, closed, cap]
    task,      \* the goroutines processKVStoreWatchEvents, one per Monitor call: position and locals
    consumer,  \* the callers of MonitorForConfigChange: returned channel, events received, closed seen
    watches,   \* the backend's watches: raw channel, watched path, history of raw events emitted
    rawTaken,  \* history, per goroutine: raw events it has taken from its raw stream
    conc       \* handle calls made by concurrent goroutines: the store when the first began, and each call's position

storeVars == <<kv, saved, call>>
watchVars == <<handle, chans, task, consumer, watches, rawTaken>>
vars == <<cm, kv, saved, call, handle, chans, task, consumer, watches, rawTaken, conc>>

----------------------------------------------------------------------------
(* Bounds *)

\* largest number of keys the store holds at once
MaxKeys == 2
\* most goroutines of one kind at one time: callers of handles, translation tasks
MaxProcs == 2
\* largest number of raw events the backend emits on one watch stream
MaxRaw == 3
\* buffer size of the raw event channel the backend client hands out
RawChanCap == 2

----------------------------------------------------------------------------
(* String constants *)

Nil == "nil"
\* the value of a nil map; the results carry isNil next to it
NilMap == << >>
BackendUnavailable == "backend-unavailable"

kvStoreDataPathPrefix == <<"/", "s", "e", "r", "v", "i", "c", "e", "/", "v", "o", "l", "t", "h", "a">>
defaultkvStoreConfigPath == <<"c", "o", "n", "f", "i", "g">>
kvStorePathSeparator == <<"/">>

defaultComponentName == <<"g", "l", "o", "b", "a", "l">>
defaultPackageName == <<"d", "e", "f", "a", "u", "l", "t">>

ConfigTypeLogLevel == 0
ConfigTypeKafka == 1

\* variant of ConfigTypeString with the two names exchanged
ConfigTypeStringMutSwapped(c) == IF c = ConfigTypeLogLevel THEN <<"k", "a", "f", "k", "a">>
                                 ELSE <<"l", "o", "g", "l", "e", "v", "e", "l">>

ConfigTypeString(c) ==
    << <<"l", "o", "g", "l", "e", "v", "e", "l">>, <<"k", "a", "f", "k", "a">> >>[c + 1]

Quote == "\""
EmptyString == << >>
StrDEBUG == <<"D", "E", "B", "U", "G">>
StrINFO == <<"I", "N", "F", "O">>
StrWARN == <<"W", "A", "R", "N">>
StrERROR == <<"E", "R", "R", "O", "R">>
StrFATAL == <<"F", "A", "T", "A", "L">>
StrX == <<"X">>
StrPkgA == <<"p", "k", "g", "A">>

\* the inputs the calls are drawn from
ComponentLabels == {defaultComponentName, StrX}
ConfigTypes == {ConfigTypeLogLevel, ConfigTypeKafka}
AttributeNames == {defaultPackageName, StrPkgA}
ConfigValues ==
    {StrINFO, StrDEBUG, <<Quote, Quote>> \o StrDEBUG \o <<Quote, Quote>>}
BackendErrors == {Nil, BackendUnavailable}

----------------------------------------------------------------------------
(* Go strings package *)

HasPrefix(s, prefix) ==
    /\ Len(prefix) <= Len(s)
    /\ SubSeq(s, 1, Len(prefix)) = prefix

TrimPrefix(s, prefix) ==
    IF HasPrefix(s, prefix) THEN SubSeq(s, Len(prefix) + 1, Len(s)) ELSE s

RECURSIVE TrimLeft(_, _)
TrimLeft(s, cutset) ==
    IF s # << >> /\ Head(s) \in cutset THEN TrimLeft(Tail(s), cutset) ELSE s

RECURSIVE TrimRight(_, _)
TrimRight(s, cutset) ==
    IF s # << >> /\ s[Len(s)] \in cutset
    THEN TrimRight(SubSeq(s, 1, Len(s) - 1), cutset)
    ELSE s

\* variant of IndexOf that finds the last occurrence (strings.LastIndex)
IndexOfMutLast(s, sep) ==
    LET at == {i \in 1..(Len(s) - Len(sep) + 1) : SubSeq(s, i, i + Len(sep) - 1) = sep}
    IN  IF at = {} THEN 0 ELSE CHOOSE i \in at : \A j \in at : j <= i

\* strings.Index, 1-based: the position of the first occurrence of sep in s, 0 when there is none
IndexOf(s, sep) ==
    LET at == {i \in 1..(Len(s) - Len(sep) + 1) : SubSeq(s, i, i + Len(sep) - 1) = sep}
    IN  IF at = {} THEN 0 ELSE CHOOSE i \in at : \A j \in at : i <= j

Contains(s, sep) == IndexOf(s, sep) # 0

\* strings.SplitN(s, sep, 2): one part when sep does not occur, else the parts around its first occurrence
SplitN2(s, sep) ==
    LET i == IndexOf(s, sep)
    IN  IF i = 0 THEN <<s>>
        ELSE <<SubSeq(s, 1, i - 1), SubSeq(s, i + Len(sep), Len(s))>>

\* strings.SplitAfterN(s, sep, 2): as SplitN, the first part keeps the separator
SplitAfterN2(s, sep) ==
    LET i == IndexOf(s, sep)
    IN  IF i = 0 THEN <<s>>
        ELSE <<SubSeq(s, 1, i + Len(sep) - 1), SubSeq(s, i + Len(sep), Len(s))>>

\* removes at most one leading and one trailing character of the cutset
TrimOnePair(s, cutset) ==
    IF Len(s) >= 2 /\ Head(s) \in cutset /\ s[Len(s)] \in cutset
    THEN SubSeq(s, 2, Len(s) - 1)
    ELSE s

\* strings.Trim(s, cutset): every leading and trailing character of the cutset is removed
Trim(s, cutset) == TrimRight(TrimLeft(s, cutset), cutset)

----------------------------------------------------------------------------
(* log.StringToLogLevel: TRUE when the string names a log level *)

StringToLogLevelOk(l) == l \in {StrDEBUG, StrINFO, StrWARN, StrERROR, StrFATAL}

----------------------------------------------------------------------------
(* db.Backend over the external key-value client *)

BackendMakePath(key) == cm.backend.PathPrefix \o kvStorePathSeparator \o key

\* variant of BackendPut that replaces the whole store by the one key
BackendPutMutReplaceStore(store, key, value) ==
    [k \in {BackendMakePath(key)} |-> value]

BackendPut(store, key, value) ==
    [k \in (DOMAIN store) \cup {BackendMakePath(key)} |->
        IF k = BackendMakePath(key) THEN value ELSE store[k]]

BackendDelete(store, key) ==
    [k \in (DOMAIN store) \ {BackendMakePath(key)} |-> store[k]]

BackendList(store, key) ==
    [k \in {x \in DOMAIN store : HasPrefix(x, BackendMakePath(key))} |-> store[k]]

----------------------------------------------------------------------------
(* ConfigManager and ComponentConfig *)

NewConfigManager ==
    [KvStoreConfigPrefix |-> defaultkvStoreConfigPath,
     backend |-> [StoreType |-> "etcd", PathPrefix |-> kvStoreDataPathPrefix]]

InitComponentConfig(componentLabel, configType) ==
    [componentLabel |-> componentLabel,
     configType |-> configType,
     changeEventChan |-> 0,
     kvStoreEventChan |-> 0]

\* variant of makeConfigPath without the configType segment
makeConfigPathMutNoType(c) ==
    cm.KvStoreConfigPrefix \o kvStorePathSeparator \o c.componentLabel

makeConfigPath(c) ==
    cm.KvStoreConfigPrefix \o kvStorePathSeparator \o
    c.componentLabel \o kvStorePathSeparator \o ConfigTypeString(c.configType)

\* variant of Save that logs the backend's error and returns nil
SaveMutSwallowError(c, configKey, configValue, berr) ==
    LET key == makeConfigPath(c) \o <<"/">> \o configKey
    IN  IF berr # Nil
        THEN [kv |-> kv, err |-> Nil]
        ELSE [kv |-> BackendPut(kv, key, configValue), err |-> Nil]

\* ComponentConfig.Save on a given store: the store after the call and the error returned
SaveTo(store, c, configKey, configValue, berr) ==
    LET key == makeConfigPath(c) \o <<"/">> \o configKey
    IN  IF berr # Nil
        THEN [kv |-> store, err |-> berr]
        ELSE [kv |-> BackendPut(store, key, configValue), err |-> Nil]

\* ComponentConfig.Save: the store after the call and the error returned
Save(c, configKey, configValue, berr) == SaveTo(kv, c, configKey, configValue, berr)

\* variant of Delete that reports a missing key as an error
DeleteMutMissingIsError(c, configKey, berr) ==
    LET key == makeConfigPath(c) \o <<"/">> \o configKey
    IN  IF berr # Nil
        THEN [kv |-> kv, err |-> berr]
        ELSE IF BackendMakePath(key) \notin DOMAIN kv
             THEN [kv |-> kv, err |-> "key-not-found"]
             ELSE [kv |-> BackendDelete(kv, key), err |-> Nil]

\* ComponentConfig.Delete on a given store: the store after the call and the error returned
DeleteFrom(store, c, configKey, berr) ==
    LET key == makeConfigPath(c) \o <<"/">> \o configKey
    IN  IF berr # Nil
        THEN [kv |-> store, err |-> berr]
        ELSE [kv |-> BackendDelete(store, key), err |-> Nil]

\* ComponentConfig.Delete: the store after the call and the error returned
Delete(c, configKey, berr) == DeleteFrom(kv, c, configKey, berr)

\* ComponentConfig.RetrieveAll: the mapping returned and the error returned
RetrieveAll(c, berr) ==
    LET key == makeConfigPath(c)
        data == BackendList(kv, key)
        ccPathPrefix == cm.backend.PathPrefix \o kvStorePathSeparator \o key \o kvStorePathSeparator
        names == {TrimPrefix(attr, ccPathPrefix) : attr \in DOMAIN data}
    IN  IF berr # Nil
        THEN [res |-> NilMap, isNil |-> TRUE, err |-> berr]
        ELSE [res |-> [n \in names |->
                        LET attr == CHOOSE a \in DOMAIN data : TrimPrefix(a, ccPathPrefix) = n
                        IN  Trim(data[attr], {Quote})],
              isNil |-> FALSE,
              err |-> Nil]

\* the key Save and Delete hand to the backend (lines 991, 1006)
SaveKey(c, configKey) == makeConfigPath(c) \o <<"/">> \o configKey

\* the body of the loop of RetrieveList (lines 977-984) for one listed key: an index
\* past the end of a split result is a run-time panic
RetrieveListEntry(c, attr, val) ==
    LET ccPathPrefix == kvStorePathSeparator \o ConfigTypeString(c.configType) \o kvStorePathSeparator
        pathPrefix == kvStorePathSeparator \o cm.KvStoreConfigPrefix \o kvStorePathSeparator
        cName == SplitN2(attr, ccPathPrefix)
        cname == SplitN2(cName[1], pathPrefix)
        pName == SplitAfterN2(attr, ccPathPrefix)
    IN  IF Len(cname) < 2 \/ Len(pName) < 2
        THEN [panic |-> TRUE, entry |-> << >>]
        ELSE [panic |-> FALSE,
              entry |-> [ComponentName |-> cname[2],
                         PackageName |-> pName[2],
                         Level |-> Trim(val, {Quote})]]

\* variant of RetrieveList that lists under the handle's own base path only
RetrieveListMutOwnComponent(c, berr) ==
    LET data == BackendList(kv, makeConfigPath(c))
        entries == [attr \in DOMAIN data |-> RetrieveListEntry(c, attr, data[attr])]
    IN  IF berr # Nil
        THEN [list |-> {}, len |-> 0, isNil |-> TRUE, panic |-> FALSE, err |-> berr]
        ELSE IF \E attr \in DOMAIN data : entries[attr].panic
             THEN [list |-> {}, len |-> 0, isNil |-> TRUE, panic |-> TRUE, err |-> Nil]
             ELSE [list |-> {entries[attr].entry : attr \in DOMAIN data},
                   len |-> Cardinality(DOMAIN data),
                   isNil |-> (DOMAIN data = {}), panic |-> FALSE, err |-> Nil]

\* ComponentConfig.RetrieveList: the entries of the slice returned (in no order),
\* their number, the error returned, or the panic that ends the call
RetrieveList(c, berr) ==
    LET data == BackendList(kv, cm.KvStoreConfigPrefix)
        entries == [attr \in DOMAIN data |-> RetrieveListEntry(c, attr, data[attr])]
    IN  IF berr # Nil
        THEN [list |-> {}, len |-> 0, isNil |-> TRUE, panic |-> FALSE, err |-> berr]
        ELSE IF \E attr \in DOMAIN data : entries[attr].panic
             THEN [list |-> {}, len |-> 0, isNil |-> TRUE, panic |-> TRUE, err |-> Nil]
             ELSE [list |-> {entries[attr].entry : attr \in DOMAIN data},
                   len |-> Cardinality(DOMAIN data),
                   isNil |-> (DOMAIN data = {}), panic |-> FALSE, err |-> Nil]

----------------------------------------------------------------------------
(* loglevel helpers of package commands *)

\* listGlobalConfig (list command): the global default level, "" when absent or not a level
listGlobalConfig(cConfig, berr) ==
    LET r == RetrieveAll(cConfig, berr)
    IN  IF r.err # Nil
        THEN [level |-> EmptyString, err |-> r.err]
        ELSE IF defaultPackageName \in DOMAIN r.res /\ StringToLogLevelOk(r.res[defaultPackageName])
             THEN [level |-> r.res[defaultPackageName], err |-> Nil]
             ELSE [level |-> EmptyString, err |-> Nil]

\* variant of MergeGlobal that keeps only the global entry
MergeGlobalMutDropOwn(componentLogConfig, globalLevel) ==
    IF globalLevel # EmptyString
    THEN [n \in {defaultPackageName} |-> globalLevel]
    ELSE componentLogConfig

\* the merge of the global level into a component's mapping (lines 174-176, 543-545)
MergeGlobal(componentLogConfig, globalLevel) ==
    IF globalLevel # EmptyString
    THEN [n \in (DOMAIN componentLogConfig) \cup {defaultPackageName} |->
            IF n = defaultPackageName THEN globalLevel ELSE componentLogConfig[n]]
    ELSE componentLogConfig

\* listComponentNameConfig (list command)
listComponentNameConfig(cConfig, globalLevel, berr) ==
    LET r == RetrieveAll(cConfig, berr)
    IN  IF r.err # Nil
        THEN [res |-> NilMap, isNil |-> TRUE, err |-> r.err]
        ELSE [res |-> MergeGlobal(r.res, globalLevel), isNil |-> FALSE, err |-> Nil]

\* componentLogController.listGlobalConfig
clcListGlobalConfig(globalConfig, berr) ==
    LET r == RetrieveAll(globalConfig, berr)
    IN  IF r.err # Nil
        THEN [level |-> EmptyString, err |-> r.err]
        ELSE IF defaultPackageName \in DOMAIN r.res
             THEN [level |-> r.res[defaultPackageName], err |-> Nil]
             ELSE [level |-> EmptyString, err |-> Nil]

\* componentLogController.listComponentNameConfig
clcListComponentNameConfig(globalConfig, componentNameConfig, berrGlobal, berr) ==
    LET g == clcListGlobalConfig(globalConfig, berrGlobal)
        r == RetrieveAll(componentNameConfig, berr)
    IN  IF g.err # Nil
        THEN [res |-> NilMap, isNil |-> TRUE, err |-> g.err]
        ELSE IF r.err # Nil
             THEN [res |-> NilMap, isNil |-> TRUE, err |-> r.err]
             ELSE [res |-> MergeGlobal(r.res, g.level), isNil |-> FALSE, err |-> Nil]

----------------------------------------------------------------------------
(* Calls on the store, each made through a freshly initialised handle *)

NoCall ==
    [op |-> "none", component |-> EmptyString, configType |-> ConfigTypeLogLevel,
     attr |-> EmptyString, value |-> EmptyString,
     berrGlobal |-> Nil, berr |-> Nil,
     err |-> Nil, res |-> NilMap, isNil |-> TRUE,
     existed |-> FALSE, again |-> FALSE,
     list |-> {}, len |-> 0, panic |-> FALSE,
     args |-> << >>, level |-> EmptyString, kind |-> "etcd", clientErr |-> Nil,
     cmCreated |-> FALSE, client |-> FALSE,
     attempts |-> << >>, output |-> << >>, data |-> {}, closes |-> 0]

Triple(c, t, a) == <<c, t, a>>

SaveCallOn(l, t, a, v, berr) ==
        LET c == InitComponentConfig(l, t)
            r == Save(c, a, v, berr)
        IN  /\ Cardinality(DOMAIN r.kv) <= MaxKeys
            /\ kv' = r.kv
            /\ saved' = IF r.err = Nil
                         THEN [x \in (DOMAIN saved) \cup {Triple(l, t, a)} |->
                                 IF x = Triple(l, t, a) THEN v ELSE saved[x]]
                         ELSE saved
            /\ call' = [NoCall EXCEPT !.op = "Save", !.component = l, !.configType = t,
                                      !.attr = a, !.value = v, !.berr = berr, !.err = r.err]
            /\ UNCHANGED <<cm, conc, watchVars>>

SaveCall ==
    \E l \in ComponentLabels, t \in ConfigTypes, a \in AttributeNames,
       v \in ConfigValues, berr \in BackendErrors :
        SaveCallOn(l, t, a, v, berr)

DeleteCallOn(l, t, a, berr) ==
        LET c == InitComponentConfig(l, t)
            r == Delete(c, a, berr)
        IN  /\ kv' = r.kv
            /\ saved' = IF r.err = Nil
                         THEN [x \in (DOMAIN saved) \ {Triple(l, t, a)} |-> saved[x]]
                         ELSE saved
            /\ call' = [NoCall EXCEPT !.op = "Delete", !.component = l, !.configType = t,
                                      !.attr = a, !.berr = berr, !.err = r.err,
                                      !.existed = (Triple(l, t, a) \in DOMAIN saved),
                                      !.again = /\ call.op = "Delete"
                                                /\ call.err = Nil
                                                /\ call.component = l
                                                /\ call.configType = t
                                                /\ call.attr = a]
            /\ UNCHANGED <<cm, conc, watchVars>>

DeleteCall ==
    \E l \in ComponentLabels, t \in ConfigTypes, a \in AttributeNames,
       berr \in BackendErrors :
        DeleteCallOn(l, t, a, berr)

RetrieveAllCallOn(l, t, berr) ==
        LET c == InitComponentConfig(l, t)
            r == RetrieveAll(c, berr)
        IN  /\ call' = [NoCall EXCEPT !.op = "RetrieveAll", !.component = l, !.configType = t,
                                      !.berr = berr, !.err = r.err,
                                      !.res = r.res, !.isNil = r.isNil]
            /\ UNCHANGED <<cm, conc, kv, saved, watchVars>>

RetrieveAllCall ==
    \E l \in ComponentLabels, t \in ConfigTypes, berr \in BackendErrors :
        RetrieveAllCallOn(l, t, berr)

\* ListLogLevelsOpts.Execute, for one component: the global level is read, its error
\* ignored, and merged into the component's mapping
ListComponentCall ==
    \E l \in ComponentLabels, berrGlobal \in BackendErrors, berr \in BackendErrors :
        LET globalConfig == InitComponentConfig(defaultComponentName, ConfigTypeLogLevel)
            globalLevel == listGlobalConfig(globalConfig, berrGlobal).level
            cNameConfig == InitComponentConfig(l, ConfigTypeLogLevel)
            r == listComponentNameConfig(cNameConfig, globalLevel, berr)
        IN  /\ call' = [NoCall EXCEPT !.op = "listComponentNameConfig", !.component = l,
                                      !.berrGlobal = berrGlobal, !.berr = berr,
                                      !.err = r.err, !.res = r.res, !.isNil = r.isNil]
            /\ UNCHANGED <<cm, conc, kv, saved, watchVars>>

\* ListLogLevelsOpts.listLogLevels, for one component, through the componentLogController
ClcListComponentCall ==
    \E l \in ComponentLabels, berrGlobal \in BackendErrors, berr \in BackendErrors :
        LET globalConfig == InitComponentConfig(defaultComponentName, ConfigTypeLogLevel)
            componentNameConfig == InitComponentConfig(l, ConfigTypeLogLevel)
            r == clcListComponentNameConfig(globalConfig, componentNameConfig, berrGlobal, berr)
        IN  /\ call' = [NoCall EXCEPT !.op = "clcListComponentNameConfig", !.component = l,
                                      !.berrGlobal = berrGlobal, !.berr = berr,
                                      !.err = r.err, !.res = r.res, !.isNil = r.isNil]
            /\ UNCHANGED <<cm, conc, kv, saved, watchVars>>

----------------------------------------------------------------------------
(* Watch: MonitorForConfigChange and the goroutine processKVStoreWatchEvents *)

\* kvstore event kinds
PUT == 0
DELETE == 1
CONNECTIONDOWN == 2
UNKNOWN == 3

\* ChangeEventType
ChangePut == 0
ChangeDelete == 1

ChangeEventType(eventType) == eventType

EventKinds == {PUT, DELETE, CONNECTIONDOWN, UNKNOWN}
WatchAttributeNames == AttributeNames \cup {EmptyString}

NoHandle == [componentLabel |-> EmptyString, configType |-> -1,
             changeEventChan |-> 0, kvStoreEventChan |-> 0]

MakeChan(cap) == [buf |-> << >>, closed |-> FALSE, cap |-> cap]

NewChanId == Len(chans) + 1

\* the caller creates the handle it is going to watch with
CreateHandle ==
    /\ handle = NoHandle
    /\ \E l \in ComponentLabels, t \in ConfigTypes :
          handle' = InitComponentConfig(l, t)
    /\ UNCHANGED <<cm, conc, storeVars, chans, task, consumer, watches, rawTaken>>

\* ComponentConfig.MonitorForConfigChange: two channels are made, the raw one is
\* replaced by the channel of the backend's watch, the goroutine is started and
\* the typed channel is returned to the caller
MonitorForConfigChange ==
    /\ handle # NoHandle
    /\ LET key == makeConfigPath(handle)
           made == NewChanId
           out == NewChanId + 1
           raw == NewChanId + 2
       IN  /\ chans' = chans \o <<MakeChan(1), MakeChan(1), MakeChan(RawChanCap)>>
           /\ handle' = [handle EXCEPT !.kvStoreEventChan = raw, !.changeEventChan = out]
           /\ watches' = Append(watches, [ch |-> raw, key |-> BackendMakePath(key), sent |-> << >>])
           /\ task' = Append(task, [pc |-> "start", ccPathPrefix |-> EmptyString, rawCh |-> 0,
                                    configEvent |-> [ChangeType |-> ChangePut, ConfigAttribute |-> EmptyString]])
           /\ rawTaken' = Append(rawTaken, << >>)
           /\ consumer' = Append(consumer, [ch |-> out, received |-> << >>, sawClosed |-> FALSE])
    /\ UNCHANGED <<cm, conc, storeVars>>

\* processKVStoreWatchEvents, lines 907-910: the prefix is computed and the range
\* over the handle's raw channel begins
TaskStart(i) ==
    /\ task[i].pc = "start"
    /\ task' = [task EXCEPT ![i] = [@ EXCEPT
                   !.pc = "recv",
                   !.ccPathPrefix = cm.backend.PathPrefix \o makeConfigPath(handle) \o kvStorePathSeparator,
                   !.rawCh = handle.kvStoreEventChan]]
    /\ UNCHANGED <<cm, conc, storeVars, handle, chans, consumer, watches, rawTaken>>

\* variant of Translate with the two change types exchanged
TranslateMutSwapKind(watchResp, ccPathPrefix) ==
    [ChangeType |-> IF watchResp.EventType = PUT THEN ChangeDelete ELSE ChangePut,
     ConfigAttribute |-> TrimPrefix(watchResp.Key, ccPathPrefix)]

\* the translation of one raw event, lines 917-924
Translate(watchResp, ccPathPrefix) ==
    [ChangeType |-> ChangeEventType(watchResp.EventType),
     ConfigAttribute |-> TrimPrefix(watchResp.Key, ccPathPrefix)]

\* variant of IsInvalidChangeType that lets UNKNOWN through
IsInvalidChangeTypeMutForwardUnknown(watchResp) ==
    watchResp.EventType = CONNECTIONDOWN

\* the filter of lines 912-915
IsInvalidChangeType(watchResp) ==
    watchResp.EventType = CONNECTIONDOWN \/ watchResp.EventType = UNKNOWN

\* one iteration of the range loop up to the send: a raw event is taken and either
\* skipped or translated; the loop ends when the raw channel is closed and drained
TaskRecv(i) ==
    /\ task[i].pc = "recv"
    /\ LET ch == chans[task[i].rawCh]
       IN  IF ch.buf # << >>
           THEN LET watchResp == Head(ch.buf)
                IN  /\ chans' = [chans EXCEPT ![task[i].rawCh].buf = Tail(@)]
                    /\ rawTaken' = [rawTaken EXCEPT ![i] = Append(@, watchResp)]
                    /\ IF IsInvalidChangeType(watchResp)
                       THEN task' = task
                       ELSE task' = [task EXCEPT ![i] = [@ EXCEPT
                                       !.pc = "send",
                                       !.configEvent = Translate(watchResp, task[i].ccPathPrefix)]]
           ELSE /\ ch.closed
                /\ task' = [task EXCEPT ![i].pc = "done"]
                /\ UNCHANGED <<chans, rawTaken>>
    /\ UNCHANGED <<cm, conc, storeVars, handle, consumer, watches>>

\* variant of SendEnabled for a send that never blocks
SendEnabledMutNeverBlocks(ch) == TRUE

\* the send of line 927 on the handle's typed channel; it blocks while the buffer is full

SendEnabled(ch) == Len(ch.buf) < ch.cap

\* variant of TaskSend that gives the event up when the buffer is full
TaskSendMutDropWhenFull(i) ==
    /\ task[i].pc = "send"
    /\ LET out == handle.changeEventChan
       IN  /\ ~chans[out].closed
           /\ chans' = IF SendEnabled(chans[out])
                       THEN [chans EXCEPT ![out].buf = Append(@, task[i].configEvent)]
                       ELSE chans
    /\ task' = [task EXCEPT ![i].pc = "recv"]
    /\ UNCHANGED <<cm, conc, storeVars, handle, consumer, watches, rawTaken>>

TaskSend(i) ==
    /\ task[i].pc = "send"
    /\ LET out == handle.changeEventChan
       IN  /\ SendEnabled(chans[out])
           /\ ~chans[out].closed
           /\ chans' = [chans EXCEPT ![out].buf = Append(@, task[i].configEvent)]
    /\ task' = [task EXCEPT ![i].pc = "recv"]
    /\ UNCHANGED <<cm, conc, storeVars, handle, consumer, watches, rawTaken>>

processKVStoreWatchEvents ==
    \E i \in 1..Len(task) : TaskStart(i) \/ TaskRecv(i) \/ TaskSend(i)

\* the backend puts a raw event of one of the kinds, on one of the names, on the
\* stream of a watch
BackendEventOf(kinds, names) ==
    \E i \in 1..Len(watches) :
        /\ ~chans[watches[i].ch].closed
        /\ Len(watches[i].sent) < MaxRaw
        /\ Len(chans[watches[i].ch].buf) < chans[watches[i].ch].cap
        /\ \E kind \in kinds, a \in names :
              LET ev == IF kind \in {PUT, DELETE}
                        THEN [EventType |-> kind, Key |-> watches[i].key \o kvStorePathSeparator \o a]
                        ELSE [EventType |-> kind, Key |-> EmptyString]
              IN  /\ chans' = [chans EXCEPT ![watches[i].ch].buf = Append(@, ev)]
                  /\ watches' = [watches EXCEPT ![i].sent = Append(@, ev)]
        /\ UNCHANGED <<cm, conc, storeVars, handle, task, consumer, rawTaken>>

\* the backend puts a raw event on the stream of a watch
BackendEvent == BackendEventOf(EventKinds, WatchAttributeNames)

\* the backend reports a put of the default attribute on the stream of a watch
BackendPutEvent == BackendEventOf({PUT}, {defaultPackageName})

\* the backend closes the raw stream of a watch (disconnect or unsubscribe)
BackendCloseWatch ==
    \E i \in 1..Len(watches) :
        /\ ~chans[watches[i].ch].closed
        /\ chans' = [chans EXCEPT ![watches[i].ch].closed = TRUE]
        /\ UNCHANGED <<cm, conc, storeVars, handle, task, consumer, watches, rawTaken>>

\* the consumer receives from the channel MonitorForConfigChange returned to it
ConsumerReceive ==
    \E i \in 1..Len(consumer) :
        LET ch == chans[consumer[i].ch]
        IN  /\ ch.buf # << >> \/ (ch.closed /\ ~consumer[i].sawClosed)
            /\ IF ch.buf # << >>
               THEN /\ consumer' = [consumer EXCEPT ![i].received = Append(@, Head(ch.buf))]
                    /\ chans' = [chans EXCEPT ![consumer[i].ch].buf = Tail(@)]
               ELSE /\ consumer' = [consumer EXCEPT ![i].sawClosed = TRUE]
                    /\ chans' = chans
            /\ UNCHANGED <<cm, conc, storeVars, handle, task, watches, rawTaken>>

----------------------------------------------------------------------------
(* Listing across components: the store calls on labels that include a type name *)

ListLabels == {StrX, <<"l", "o", "g", "l", "e", "v", "e", "l">>}
ListValues == {StrINFO, <<Quote>> \o StrDEBUG \o <<Quote>>}

ListSaveCall ==
    \E l \in ListLabels, t \in ConfigTypes, a \in AttributeNames,
       v \in ListValues, berr \in BackendErrors :
        SaveCallOn(l, t, a, v, berr)

ListDeleteCall ==
    \E l \in ListLabels, t \in ConfigTypes, a \in AttributeNames, berr \in BackendErrors :
        DeleteCallOn(l, t, a, berr)

ListRetrieveAllCall ==
    \E l \in ListLabels, t \in ConfigTypes, berr \in BackendErrors :
        RetrieveAllCallOn(l, t, berr)

RetrieveListCall ==
    \E l \in ListLabels, t \in ConfigTypes, berr \in BackendErrors :
        LET c == InitComponentConfig(l, t)
            r == RetrieveList(c, berr)
        IN  /\ call' = [NoCall EXCEPT !.op = "RetrieveList", !.component = l, !.configType = t,
                                      !.berr = berr, !.err = r.err, !.isNil = r.isNil,
                                      !.list = r.list, !.len = r.len, !.panic = r.panic]
            /\ UNCHANGED <<cm, conc, kv, saved, watchVars>>

----------------------------------------------------------------------------
(* The loglevel commands: construction of the config manager *)

defaultKVStoreType == "etcd"
UnsupportedKVStore == "unsupported-kv-store"
StoreKinds == {"etcd", "consul"}
ClientErrors == {Nil, BackendUnavailable}

\* newKVClient: whether a client is returned, and the error
newKVClient(storeType, clientErr) ==
    IF storeType = "etcd"
    THEN [client |-> (clientErr = Nil), err |-> clientErr]
    ELSE [client |-> FALSE, err |-> UnsupportedKVStore]

\* kvStore.setKVClient: whether a ConfigManager is returned, whether its client is
\* non-nil, and the error
setKVClient(KVStoreType, clientErr) ==
    LET r == newKVClient(KVStoreType, clientErr)
    IN  IF r.err # Nil
        THEN [cm |-> FALSE, client |-> FALSE, err |-> r.err]
        ELSE [cm |-> TRUE, client |-> r.client, err |-> Nil]

\* setConfigManager: the client is created for "etcd" only, the ConfigManager is
\* built around kv.KvClient whatever the kind
setConfigManager(KVStoreType, clientErr) ==
    IF KVStoreType = "etcd" /\ clientErr # Nil
    THEN [cm |-> FALSE, client |-> FALSE, err |-> clientErr]
    ELSE [cm |-> TRUE, client |-> (KVStoreType = "etcd"), err |-> Nil]

\* createConfigManager: NewDefaultKVStore, then setConfigManager
createConfigManager(clientErr) == setConfigManager(defaultKVStoreType, clientErr)

SetKVClientCall ==
    \E KVStoreType \in StoreKinds, clientErr \in ClientErrors :
        LET r == setKVClient(KVStoreType, clientErr)
        IN  /\ call' = [NoCall EXCEPT !.op = "setKVClient", !.kind = KVStoreType,
                                      !.clientErr = clientErr, !.err = r.err,
                                      !.cmCreated = r.cm, !.client = r.client]
            /\ UNCHANGED <<cm, conc, kv, saved, watchVars>>

SetConfigManagerCall ==
    \E KVStoreType \in StoreKinds, clientErr \in ClientErrors :
        LET r == setConfigManager(KVStoreType, clientErr)
        IN  /\ call' = [NoCall EXCEPT !.op = "setConfigManager", !.kind = KVStoreType,
                                      !.clientErr = clientErr, !.err = r.err,
                                      !.cmCreated = r.cm, !.client = r.client]
            /\ UNCHANGED <<cm, conc, kv, saved, watchVars>>

----------------------------------------------------------------------------
(* The loglevel commands: arguments *)

StrList == <<"l", "i", "s", "t">>
StrPkgASlashB == <<"p", "k", "g", "A", "/", "p", "k", "g", "B">>
StrPkgAHashB == <<"p", "k", "g", "A", "#", "p", "k", "g", "B">>

\* the arguments X#pkgA/pkgB and X#pkgA#pkgB
ArgSlashInName == StrX \o <<"#">> \o StrPkgASlashB
ArgHashInName == StrX \o <<"#">> \o StrPkgAHashB

CliLevels == {StrDEBUG, EmptyString, StrX}
CliArgLists ==
    {<< >>, <<ArgHashInName>>, <<StrX, ArgSlashInName>>,
     <<StrX, defaultComponentName>>, <<StrList, StrX>>}
CliListArgs == {<< >>, <<StrX>>, <<StrX, defaultComponentName>>,
                <<StrX, defaultComponentName, StrList>>}

ErrUnknownLogLevel == "Unknown log level"
ErrCreateConfigManager == "Unable to create configmanager"
ErrMoreThanOneComponent == "Please don't specify more than one component name"
ErrListComponents == "Unable to list components"
ErrListComponentsLogLevel == "Unable to list components log level"

\* strings.Split for a separator that is not empty
RECURSIVE Split(_, _)
Split(s, sep) ==
    IF ~Contains(s, sep)
    THEN <<s>>
    ELSE LET p == SplitN2(s, sep) IN <<p[1]>> \o Split(p[2], sep)

\* strings.ReplaceAll for one-character old and new
ReplaceAll(s, old, new) == [i \in 1..Len(s) |-> IF s[i] = old THEN new ELSE s[i]]

\* variant of processCommandArgs that stores the package name as given
processCommandArgsMutNoEscape(component) ==
    IF Contains(component, <<"#">>)
    THEN LET val == Split(component, <<"#">>)
         IN  [ComponentName |-> val[1], PackageName |-> val[2]]
    ELSE [ComponentName |-> component, PackageName |-> defaultPackageName]

\* processCommandArgs(component string) model.LogLevel
processCommandArgs(component) ==
    IF Contains(component, <<"#">>)
    THEN LET val == Split(component, <<"#">>)
         IN  [ComponentName |-> val[1], PackageName |-> ReplaceAll(val[2], "/", "#")]
    ELSE [ComponentName |-> component, PackageName |-> defaultPackageName]

\* processCommandArgs(components []string) map[string]string: a later argument with
\* the same component name replaces the earlier one
RECURSIVE clcProcessCommandArgs(_)
clcProcessCommandArgs(components) ==
    IF components = << >>
    THEN << >>
    ELSE LET rest == clcProcessCommandArgs(SubSeq(components, 1, Len(components) - 1))
             componentKey == components[Len(components)]
             componentName == IF Contains(componentKey, <<"#">>)
                              THEN Split(componentKey, <<"#">>)[1]
                              ELSE componentKey
             packageName == IF Contains(componentKey, <<"#">>)
                            THEN ReplaceAll(Split(componentKey, <<"#">>)[2], "/", "#")
                            ELSE defaultPackageName
         IN  [n \in (DOMAIN rest) \cup {componentName} |->
                 IF n = componentName THEN packageName ELSE rest[n]]

\* the orders in which a range over a map may visit its keys
Orders(keys) ==
    {o \in [1..Cardinality(keys) -> keys] : \A i, j \in DOMAIN o : i # j => o[i] # o[j]}

LogLevelOutput(componentName, err) ==
    [ComponentName |-> componentName,
     Status |-> IF err = Nil THEN "Success" ELSE "Failure",
     Error |-> err]

\* what a command has done so far: the store, the rows of output, the Save or Delete
\* calls made (requested component, label of the handle used, key, errors), the
\* controller's componentNameConfig and whether the command has panicked
NoHandleSet == [set |-> FALSE, label |-> EmptyString]
Started == [store |-> kv, output |-> << >>, attempts |-> << >>,
            componentNameConfig |-> NoHandleSet, panic |-> FALSE]
Attempt(componentName, label, packageName, berr, err) ==
    [component |-> componentName, handle |-> label, package |-> packageName,
     berr |-> berr, err |-> err]

----------------------------------------------------------------------------
(* The loglevel commands: set *)

\* the loop of SetLogLevelOpts.Execute (lines 242-253) after its first i rounds
RECURSIVE SaveEach(_, _, _, _)
SaveEach(componentNameConfig, Level, berrs, i) ==
    IF i = 0
    THEN Started
    ELSE LET st == SaveEach(componentNameConfig, Level, berrs, i - 1)
             cConfig == componentNameConfig[i]
             cNameConfig == InitComponentConfig(cConfig.ComponentName, ConfigTypeLogLevel)
             r == SaveTo(st.store, cNameConfig, cConfig.PackageName, Level, berrs[i])
         IN  [st EXCEPT !.store = r.kv,
                        !.output = Append(@, LogLevelOutput(cConfig.ComponentName, r.err)),
                        !.attempts = Append(@, Attempt(cConfig.ComponentName, cConfig.ComponentName,
                                                       cConfig.PackageName, berrs[i], r.err))]

\* SetLogLevelOpts.Execute
SetLogLevelExecute ==
    \E Level \in CliLevels, Component \in CliArgLists, clientErr \in ClientErrors :
        LET componentNameConfig ==
                IF Len(Component) = 0
                THEN <<[ComponentName |-> defaultComponentName, PackageName |-> defaultPackageName]>>
                ELSE [i \in 1..Len(Component) |-> processCommandArgs(Component[i])]
            m == createConfigManager(clientErr)
            entered == [NoCall EXCEPT !.op = "SetLogLevel", !.args = Component, !.level = Level,
                                      !.clientErr = clientErr]
        IN  IF Level # EmptyString /\ ~StringToLogLevelOk(Level)
            THEN /\ call' = [entered EXCEPT !.err = ErrUnknownLogLevel]
                 /\ UNCHANGED <<cm, conc, kv, saved, watchVars>>
            ELSE IF m.err # Nil
            THEN /\ call' = [entered EXCEPT !.err = ErrCreateConfigManager]
                 /\ UNCHANGED <<cm, conc, kv, saved, watchVars>>
            ELSE \E berrs \in [1..Len(componentNameConfig) -> BackendErrors] :
                    LET st == SaveEach(componentNameConfig, Level, berrs, Len(componentNameConfig))
                    IN  /\ Cardinality(DOMAIN st.store) <= MaxKeys
                        /\ kv' = st.store
                        /\ call' = [entered EXCEPT !.cmCreated = TRUE, !.client = m.client,
                                                   !.attempts = st.attempts, !.output = st.output,
                                                   !.closes = 1]
                        /\ UNCHANGED <<cm, conc, saved, watchVars>>

\* createComponentConfig: the controller's componentNameConfig after the call
createComponentConfig(componentNameConfig, componentName) ==
    IF componentName = StrList
    THEN componentNameConfig
    ELSE [set |-> TRUE, label |-> componentName]

\* the loop of the controller's set (lines 606-623) and clear (lines 724-741) after the
\* first i keys of the map in the order visited: a call through a nil
\* componentNameConfig is a run-time panic. isSet tells Save from Delete.
RECURSIVE ClcEach(_, _, _, _, _, _)
ClcEach(isSet, componentConfig, order, Level, berrs, i) ==
    IF i = 0
    THEN Started
    ELSE LET st == ClcEach(isSet, componentConfig, order, Level, berrs, i - 1)
             componentName == order[i]
             packageName == componentConfig[componentName]
             cc == createComponentConfig(st.componentNameConfig, componentName)
             label == IF componentName = defaultComponentName
                      THEN defaultComponentName
                      ELSE cc.label
             cNameConfig == InitComponentConfig(label, ConfigTypeLogLevel)
             r == IF isSet
                  THEN SaveTo(st.store, cNameConfig, packageName, Level, berrs[i])
                  ELSE DeleteFrom(st.store, cNameConfig, packageName, berrs[i])
             failure == IF r.err # Nil THEN <<LogLevelOutput(componentName, r.err)>> ELSE << >>
         IN  IF st.panic
             THEN st
             ELSE IF componentName # defaultComponentName /\ ~cc.set
             THEN [st EXCEPT !.panic = TRUE]
             ELSE [st EXCEPT !.store = r.kv,
                             !.componentNameConfig = cc,
                             !.output = @ \o failure \o <<LogLevelOutput(componentName, Nil)>>,
                             !.attempts = Append(@, Attempt(componentName, label, packageName,
                                                            berrs[i], r.err))]

\* the map of a controller command: global/default when no argument is given
ClcComponentConfig(Component) ==
    IF Len(Component) = 0
    THEN [n \in {defaultComponentName} |-> defaultPackageName]
    ELSE clcProcessCommandArgs(Component)

\* SetLogLevelOpts.Execute of the controller variant
ClcSetLogLevelExecute ==
    \E Level \in CliLevels, Component \in CliArgLists, clientErr \in ClientErrors :
        LET componentConfig == ClcComponentConfig(Component)
            m == setKVClient(defaultKVStoreType, clientErr)
            entered == [NoCall EXCEPT !.op = "ClcSetLogLevel", !.args = Component, !.level = Level,
                                      !.clientErr = clientErr]
        IN  IF Level # EmptyString /\ ~StringToLogLevelOk(Level)
            THEN /\ call' = [entered EXCEPT !.err = ErrUnknownLogLevel]
                 /\ UNCHANGED <<cm, conc, kv, saved, watchVars>>
            ELSE IF m.err # Nil
            THEN /\ call' = [entered EXCEPT !.err = m.err]
                 /\ UNCHANGED <<cm, conc, kv, saved, watchVars>>
            ELSE \E order \in Orders(DOMAIN componentConfig),
                    berrs \in [1..Cardinality(DOMAIN componentConfig) -> BackendErrors] :
                    LET st == ClcEach(TRUE, componentConfig, order, Level, berrs, Len(order))
                    IN  /\ Cardinality(DOMAIN st.store) <= MaxKeys
                        /\ kv' = st.store
                        /\ call' = [entered EXCEPT !.cmCreated = TRUE, !.client = m.client,
                                                   !.attempts = st.attempts,
                                                   !.output = IF st.panic THEN << >> ELSE st.output,
                                                   !.panic = st.panic]
                        /\ UNCHANGED <<cm, conc, saved, watchVars>>

----------------------------------------------------------------------------
(* The loglevel commands: clear *)

\* ClearLogLevelsOpts.Execute
ClearLogLevelsExecute ==
    \E Component \in CliArgLists, clientErr \in ClientErrors, berr \in BackendErrors :
        LET cConfig == IF Len(Component) = 0
                       THEN [ComponentName |-> defaultComponentName,
                             PackageName |-> defaultPackageName]
                       ELSE processCommandArgs(Component[1])
            m == createConfigManager(clientErr)
            cNameConfig == InitComponentConfig(cConfig.ComponentName, ConfigTypeLogLevel)
            r == DeleteFrom(kv, cNameConfig, cConfig.PackageName, berr)
            entered == [NoCall EXCEPT !.op = "ClearLogLevels", !.args = Component,
                                      !.clientErr = clientErr]
        IN  IF m.err # Nil
            THEN /\ call' = [entered EXCEPT !.err = ErrCreateConfigManager]
                 /\ UNCHANGED <<cm, conc, kv, saved, watchVars>>
            ELSE /\ kv' = r.kv
                 /\ call' = [entered EXCEPT
                                !.cmCreated = TRUE, !.client = m.client,
                                !.attempts = <<Attempt(cConfig.ComponentName, cConfig.ComponentName,
                                                       cConfig.PackageName, berr, r.err)>>,
                                !.output = <<LogLevelOutput(cConfig.ComponentName, r.err)>>,
                                !.closes = 1]
                 /\ UNCHANGED <<cm, conc, saved, watchVars>>

\* ClearLogLevelsOpts.Execute of the controller variant
ClcClearLogLevelsExecute ==
    \E Component \in CliArgLists, clientErr \in ClientErrors :
        LET componentConfig == ClcComponentConfig(Component)
            m == setKVClient(defaultKVStoreType, clientErr)
            entered == [NoCall EXCEPT !.op = "ClcClearLogLevels", !.args = Component,
                                      !.clientErr = clientErr]
        IN  IF m.err # Nil
            THEN /\ call' = [entered EXCEPT !.err = m.err]
                 /\ UNCHANGED <<cm, conc, kv, saved, watchVars>>
            ELSE \E order \in Orders(DOMAIN componentConfig),
                    berrs \in [1..Cardinality(DOMAIN componentConfig) -> BackendErrors] :
                    LET st == ClcEach(FALSE, componentConfig, order, EmptyString, berrs, Len(order))
                    IN  /\ kv' = st.store
                        /\ call' = [entered EXCEPT !.cmCreated = TRUE, !.client = m.client,
                                                   !.attempts = st.attempts,
                                                   !.output = IF st.panic THEN << >> ELSE st.output,
                                                   !.panic = st.panic]
                        /\ UNCHANGED <<cm, conc, saved, watchVars>>

----------------------------------------------------------------------------
(* The loglevel commands: list *)

\* ConfigManager.RetrieveComponentList: the components that have a key under the
\* config prefix
RetrieveComponentList(berr) ==
    LET data == BackendList(kv, cm.KvStoreConfigPrefix)
        prefix == cm.backend.PathPrefix \o kvStorePathSeparator \o
                  cm.KvStoreConfigPrefix \o kvStorePathSeparator
    IN  IF berr # Nil
        THEN [list |-> {}, err |-> berr]
        ELSE [list |-> {SplitN2(TrimPrefix(k, prefix), kvStorePathSeparator)[1] : k \in DOMAIN data},
              err |-> Nil]

\* the rows ListLogLevelsOpts.Execute makes of one component's mapping (lines 306-316)
LogLevelRows(componentName, componentLogConfig) ==
    {[ComponentName |-> componentName,
      PackageName |-> ReplaceAll(packageName, "#", "/"),
      Level |-> componentLogConfig[packageName]] :
        packageName \in {p \in DOMAIN componentLogConfig :
                            StringToLogLevelOk(componentLogConfig[p]) /\ p # EmptyString}}

\* ListLogLevelsOpts.Execute
ListLogLevelsExecute ==
    \E Component \in CliListArgs, clientErr \in ClientErrors,
       berrList \in BackendErrors, berrGlobal \in BackendErrors :
        LET m == createConfigManager(clientErr)
            l == RetrieveComponentList(berrList)
            componentList == IF Len(Component) = 0 THEN l.list ELSE {Component[1]}
            globalConfig == InitComponentConfig(defaultComponentName, ConfigTypeLogLevel)
            globalLevel == listGlobalConfig(globalConfig, berrGlobal).level
            entered == [NoCall EXCEPT !.op = "ListLogLevels", !.args = Component,
                                      !.clientErr = clientErr, !.berrGlobal = berrGlobal]
        IN  /\ UNCHANGED <<cm, conc, kv, saved, watchVars>>
            /\ IF m.err # Nil
               THEN call' = [entered EXCEPT !.err = ErrCreateConfigManager]
               ELSE IF Len(Component) = 0 /\ l.err # Nil
               THEN call' = [entered EXCEPT !.cmCreated = TRUE, !.client = m.client,
                                            !.berr = berrList, !.err = ErrListComponents]
               ELSE \E berrs \in [componentList -> BackendErrors] :
                      LET read(componentName) ==
                              listComponentNameConfig(
                                  InitComponentConfig(componentName, ConfigTypeLogLevel),
                                  globalLevel, berrs[componentName])
                      IN  IF \E componentName \in componentList : read(componentName).err # Nil
                          THEN call' = [entered EXCEPT !.cmCreated = TRUE, !.client = m.client,
                                                       !.berr = BackendUnavailable,
                                                       !.err = ErrListComponentsLogLevel]
                          ELSE call' = [entered EXCEPT
                                          !.cmCreated = TRUE, !.client = m.client,
                                          !.data = UNION {LogLevelRows(componentName,
                                                                       read(componentName).res) :
                                                            componentName \in componentList},
                                          !.closes = 1]

\* the rows listLogLevels makes of the entries of RetrieveList (lines 658-663)
ClcListRows(list) ==
    {[ComponentName |-> l.ComponentName,
      PackageName |-> ReplaceAll(l.PackageName, "#", "/"),
      Level |-> l.Level] : l \in list}

\* the rows listLogLevels makes of one component's mapping (lines 674-679)
ClcLogLevelRows(componentName, componentLogConfig) ==
    {[ComponentName |-> componentName,
      PackageName |-> ReplaceAll(packageName, "#", "/"),
      Level |-> componentLogConfig[packageName]] : packageName \in DOMAIN componentLogConfig}

\* ListLogLevelsOpts.Execute of the controller variant (listLogLevels)
ClcListLogLevelsExecute ==
    \E Component \in CliListArgs, clientErr \in ClientErrors,
       berrGlobal \in BackendErrors, berr \in BackendErrors :
        LET m == setKVClient(defaultKVStoreType, clientErr)
            listConfig == InitComponentConfig(StrList, ConfigTypeLogLevel)
            all == RetrieveList(listConfig, berr)
            globalConfig == InitComponentConfig(defaultComponentName, ConfigTypeLogLevel)
            componentNameConfig == InitComponentConfig(Component[1], ConfigTypeLogLevel)
            one == clcListComponentNameConfig(globalConfig, componentNameConfig, berrGlobal, berr)
            entered == [NoCall EXCEPT !.op = "ClcListLogLevels", !.args = Component,
                                      !.clientErr = clientErr]
            created == [entered EXCEPT !.cmCreated = TRUE, !.client = m.client]
        IN  /\ UNCHANGED <<cm, conc, kv, saved, watchVars>>
            /\ IF Len(Component) = 2
               THEN call' = [entered EXCEPT !.err = ErrMoreThanOneComponent]
               ELSE IF m.err # Nil
               THEN call' = [entered EXCEPT !.err = m.err]
               ELSE IF Len(Component) = 0
               THEN call' = [created EXCEPT !.berr = berr, !.err = all.err, !.panic = all.panic,
                                            !.data = ClcListRows(all.list)]
               ELSE IF Component[1] = StrList
               THEN call' = [created EXCEPT !.panic = TRUE]
               ELSE call' = [created EXCEPT !.berrGlobal = berrGlobal, !.berr = berr,
                                            !.err = one.err,
                                            !.data = IF one.err # Nil THEN {}
                                                     ELSE ClcLogLevelRows(Component[1], one.res)]

----------------------------------------------------------------------------
(* One handle: the store calls and the watch made through it *)

HandleSaveCall ==
    /\ handle # NoHandle
    /\ \E a \in AttributeNames, v \in ConfigValues, berr \in BackendErrors :
          SaveCallOn(handle.componentLabel, handle.configType, a, v, berr)

HandleDeleteCall ==
    /\ handle # NoHandle
    /\ \E a \in AttributeNames, berr \in BackendErrors :
          DeleteCallOn(handle.componentLabel, handle.configType, a, berr)

HandleRetrieveAllCall ==
    /\ handle # NoHandle
    /\ \E berr \in BackendErrors :
          RetrieveAllCallOn(handle.componentLabel, handle.configType, berr)

----------------------------------------------------------------------------
(* Concurrent calls: goroutines that each create a handle of their own and make one
   call through it. The handle method works on its own locals until its one backend
   call, which the backend serves one at a time. *)

ConcHandles == {<<StrX, ConfigTypeLogLevel>>, <<StrX, ConfigTypeKafka>>,
                <<defaultComponentName, ConfigTypeLogLevel>>}
ConcOps == {"Save", "Delete", "RetrieveAll"}

\* the store after the backend call of one handle call
CallEffect(store, p) ==
    LET c == InitComponentConfig(p.componentLabel, p.configType)
    IN  IF p.op = "Save" THEN SaveTo(store, c, defaultPackageName, StrINFO, Nil).kv
        ELSE IF p.op = "Delete" THEN DeleteFrom(store, c, defaultPackageName, Nil).kv
        ELSE store

\* a goroutine creates a handle no other goroutine of the batch has and enters a call
GoCall ==
    /\ Len(conc.procs) < MaxProcs
    /\ \E h \in ConcHandles, op \in ConcOps :
          /\ \A i \in DOMAIN conc.procs :
                <<conc.procs[i].componentLabel, conc.procs[i].configType>> # h
          /\ conc' = [base |-> IF conc.procs = << >> THEN kv ELSE conc.base,
                      procs |-> Append(conc.procs,
                                       [pc |-> "called", op |-> op,
                                        componentLabel |-> h[1], configType |-> h[2]])]
    /\ UNCHANGED <<cm, storeVars, watchVars>>

\* the backend serves the call of goroutine i and the call returns
BackendServe(i) ==
    /\ conc.procs[i].pc = "called"
    /\ kv' = CallEffect(kv, conc.procs[i])
    /\ conc' = [conc EXCEPT !.procs[i].pc = "done"]
    /\ UNCHANGED <<cm, saved, call, watchVars>>

\* the goroutines of the batch are waited for
Join ==
    /\ conc.procs # << >>
    /\ \A i \in DOMAIN conc.procs : conc.procs[i].pc = "done"
    /\ conc' = [base |-> << >>, procs |-> << >>]
    /\ UNCHANGED <<cm, storeVars, watchVars>>

\* the same calls made one after the other in the given order
RECURSIVE Sequentially(_, _, _)
Sequentially(store, procs, order) ==
    IF order = << >>
    THEN store
    ELSE Sequentially(CallEffect(store, procs[Head(order)]), procs, Tail(order))

----------------------------------------------------------------------------
(* Path round trip: a key is built as Save builds it and parsed as RetrieveList parses it *)

StrLoglevel == <<"l", "o", "g", "l", "e", "v", "e", "l">>
StrKafka == <<"k", "a", "f", "k", "a">>
StrPkgAB == <<"p", "k", "g", "A", "#", "p", "k", "g", "B">>

PathLabels ==
    {defaultComponentName, StrX, StrLoglevel, StrKafka, <<"X", "/", "Y">>, defaultkvStoreConfigPath}
PathAttributeNames ==
    {defaultPackageName, StrPkgA, StrPkgAB, EmptyString, <<"a", "/", "b">>,
     <<"a", "/">> \o StrLoglevel \o <<"/", "b">>, StrLoglevel, StrKafka, defaultkvStoreConfigPath}

RoundTripCall ==
    \E l \in PathLabels, t \in ConfigTypes, a \in PathAttributeNames :
        LET c == InitComponentConfig(l, t)
            key == BackendMakePath(SaveKey(c, a))
            r == RetrieveListEntry(c, key, StrINFO)
        IN  /\ call' = [NoCall EXCEPT !.op = "roundTrip", !.component = l, !.configType = t,
                                      !.attr = a, !.panic = r.panic,
                                      !.list = IF r.panic THEN {} ELSE {r.entry},
                                      !.len = IF r.panic THEN 0 ELSE 1]
            /\ UNCHANGED <<cm, conc, kv, saved, watchVars>>

----------------------------------------------------------------------------
(* Specifications *)

Init ==
    /\ cm = NewConfigManager
    /\ kv = << >>
    /\ saved = << >>
    /\ call = NoCall
    /\ handle = NoHandle
    /\ chans = << >>
    /\ task = << >>
    /\ consumer = << >>
    /\ watches = << >>
    /\ rawTaken = << >>
    /\ conc = [base |-> << >>, procs |-> << >>]

\* the calls on the store
NextStore ==
    \/ SaveCall
    \/ DeleteCall
    \/ RetrieveAllCall
    \/ ListComponentCall
    \/ ClcListComponentCall

SpecStore == Init /\ [][NextStore]_vars

\* one handle, one MonitorForConfigChange call on it
NextWatch ==
    \/ CreateHandle
    \/ (task = << >> /\ MonitorForConfigChange)
    \/ processKVStoreWatchEvents
    \/ BackendEvent
    \/ BackendCloseWatch
    \/ ConsumerReceive

SpecWatch == Init /\ [][NextWatch]_vars

\* the same under a scheduler that lets a runnable goroutine run, with a consumer that
\* receives whenever its channel has something for it
SpecWatchLive ==
    /\ Init
    /\ [][NextWatch]_vars
    /\ WF_vars(processKVStoreWatchEvents)
    /\ WF_vars(ConsumerReceive)

\* one handle, MonitorForConfigChange called on it again while it is watched
NextWatchAgain ==
    \/ CreateHandle
    \/ (Len(task) < MaxProcs /\ MonitorForConfigChange)
    \/ processKVStoreWatchEvents
    \/ BackendPutEvent
    \/ ConsumerReceive

SpecWatchAgain == Init /\ [][NextWatchAgain]_vars

\* the store calls and the listing across components
NextList ==
    \/ ListSaveCall
    \/ ListDeleteCall
    \/ ListRetrieveAllCall
    \/ RetrieveListCall

SpecList == Init /\ [][NextList]_vars

\* one handle: its store calls and its watch
NextLayout ==
    \/ CreateHandle
    \/ HandleSaveCall
    \/ HandleDeleteCall
    \/ HandleRetrieveAllCall
    \/ (task = << >> /\ MonitorForConfigChange)

SpecLayout == Init /\ [][NextLayout]_vars

\* goroutines calling through handles of their own, and one watched handle
NextConc ==
    \/ GoCall
    \/ \E i \in DOMAIN conc.procs : BackendServe(i)
    \/ Join
    \/ CreateHandle
    \/ (task = << >> /\ MonitorForConfigChange)

SpecConc == Init /\ [][NextConc]_vars

\* the loglevel commands
NextCli ==
    \/ SetLogLevelExecute
    \/ ClcSetLogLevelExecute
    \/ ClearLogLevelsExecute
    \/ ClcClearLogLevelsExecute
    \/ ListLogLevelsExecute
    \/ ClcListLogLevelsExecute
    \/ SetKVClientCall
    \/ SetConfigManagerCall

SpecCli == Init /\ [][NextCli]_vars

\* the path round trip on drawn labels, types and attribute names
NextPath == RoundTripCall

SpecPath == Init /\ [][NextPath]_vars

----------------------------------------------------------------------------
(* Properties *)

\* the raw events of a stream that have a defined translation
IsForwarded(e) == e.EventType \in {PUT, DELETE}
Forwarded(raw) == SelectSeq(raw, IsForwarded)

IsSuffix(suffix, s) ==
    /\ Len(suffix) <= Len(s)
    /\ SubSeq(s, Len(s) - Len(suffix) + 1, Len(s)) = suffix

SameKind(event, raw) ==
    \/ raw.EventType = PUT /\ event.ChangeType = ChangePut
    \/ raw.EventType = DELETE /\ event.ChangeType = ChangeDelete

\* the key layout <store-path-prefix>/<configPrefix>/<componentLabel>/<configTypeString>/<attributeName>
StoredKey(componentLabel, configType, attributeName) ==
    kvStoreDataPathPrefix \o <<"/">> \o defaultkvStoreConfigPath \o <<"/">> \o
    componentLabel \o <<"/">> \o ConfigTypeString(configType) \o <<"/">> \o attributeName

\* what the goroutine of watch i holds between taking a raw event and sending its translation
Held(i) == IF task[i].pc = "send" THEN <<task[i].configEvent>> ELSE << >>

\* nothing of watch i is in flight
Drained(i) ==
    /\ chans[watches[i].ch].buf = << >>
    /\ chans[consumer[i].ch].buf = << >>
    /\ task[i].pc \in {"recv", "done"}

\* C1: the events the consumer has received are, in order and one for one, the
\* Put/Delete raw events the backend emitted on the stream, each with the kind of
\* its raw event and an attribute taken from that raw event's key; once nothing
\* is in flight, every Put/Delete raw event has been received.
C1_OneEventPerRawEventInOrder ==
    \A i \in 1..Len(consumer) :
        LET expected == Forwarded(watches[i].sent)
            received == consumer[i].received
        IN  /\ Len(received) <= Len(expected)
            /\ \A j \in 1..Len(received) :
                  /\ SameKind(received[j], expected[j])
                  /\ IsSuffix(received[j].ConfigAttribute, expected[j].Key)
            /\ Drained(i) => Len(received) = Len(expected)

\* put, put, delete on one attribute have been received as three events in that order
C1_Witness ==
    /\ Len(consumer) = 1
    /\ Len(consumer[1].received) = 3
    /\ consumer[1].received[1].ChangeType = ChangePut
    /\ consumer[1].received[2].ChangeType = ChangePut
    /\ consumer[1].received[3].ChangeType = ChangeDelete
    /\ consumer[1].received[1].ConfigAttribute = consumer[1].received[3].ConfigAttribute
    /\ \A j \in 1..3 : watches[1].sent[j].EventType \in {PUT, DELETE}

\* C2: a step in which the goroutine takes a ConnectionDown or Unknown raw event
\* puts nothing on the outbound channel, delivers nothing to the consumer and
\* leaves the goroutine in its receive loop.
C2_InvalidKindStep ==
    \A i \in 1..Len(task) :
        (/\ Len(rawTaken'[i]) = Len(rawTaken[i]) + 1
         /\ rawTaken'[i][Len(rawTaken'[i])].EventType \in {CONNECTIONDOWN, UNKNOWN})
        => /\ task'[i].pc = "recv"
           /\ chans'[handle.changeEventChan] = chans[handle.changeEventChan]
           /\ consumer' = consumer

C2_InvalidKindsAreDroppedAndWatchContinues == [][C2_InvalidKindStep]_vars

\* a Put emitted after a ConnectionDown and an Unknown event has been received
C2_Witness ==
    /\ Len(consumer) = 1
    /\ Len(rawTaken[1]) = 3
    /\ rawTaken[1][1].EventType = CONNECTIONDOWN
    /\ rawTaken[1][2].EventType = UNKNOWN
    /\ rawTaken[1][3].EventType = PUT
    /\ Len(consumer[1].received) = 1

\* C3: once the goroutine has left its loop because the raw stream was closed,
\* the outbound channel is closed.
C3_OutboundClosedWhenRawStreamEnds ==
    \A i \in 1..Len(task) :
        task[i].pc = "done" => chans[consumer[i].ch].closed

\* C4: the outbound channel has capacity 1 and never holds more than one event,
\* and the translations of the Put/Delete raw events the goroutine has taken are
\* exactly the events received, then the one in the channel, then the one held
\* by the goroutine.
C4_BlocksNeverDrops ==
    \A i \in 1..Len(task) :
        LET out == chans[consumer[i].ch]
            taken == Forwarded(rawTaken[i])
        IN  /\ out.cap = 1
            /\ Len(out.buf) <= 1
            /\ consumer[i].received \o out.buf \o Held(i) =
                  [j \in 1..Len(taken) |-> Translate(taken[j], task[i].ccPathPrefix)]

\* the goroutine is blocked on its send: the channel is full and more raw events wait
C4_Witness ==
    /\ Len(task) = 1
    /\ task[1].pc = "send"
    /\ Len(chans[consumer[1].ch].buf) = 1
    /\ chans[watches[1].ch].buf # << >>

\* C5: the attribute of a received event whose raw key is a stored key of the
\* handle is the bare attribute name.
C5_AttributeIsBareName ==
    \A i \in 1..Len(consumer) :
        \A j \in 1..Len(consumer[i].received) :
            \A a \in WatchAttributeNames :
                Forwarded(watches[i].sent)[j].Key =
                    StoredKey(handle.componentLabel, handle.configType, a)
                => consumer[i].received[j].ConfigAttribute = a

\* C6: RetrieveAll after a successful Save(attr, v) contains attr -> v with one
\* pair of enclosing quotes removed.
C6_SavedValueReadBackUnquotedOnce ==
    (call.op = "RetrieveAll" /\ call.err = Nil)
    => \A a \in AttributeNames :
          Triple(call.component, call.configType, a) \in DOMAIN saved
          => /\ a \in DOMAIN call.res
             /\ call.res[a] =
                   TrimOnePair(saved[Triple(call.component, call.configType, a)], {Quote})

\* C7: RetrieveAll returns exactly one entry for each attribute whose most recent
\* operation was a Save, with the value of that Save, and nothing else.
C7_RetrieveAllIsLastSaves ==
    (call.op = "RetrieveAll" /\ call.err = Nil)
    => /\ DOMAIN call.res =
            {a \in AttributeNames : Triple(call.component, call.configType, a) \in DOMAIN saved}
       /\ \A a \in DOMAIN call.res :
            call.res[a] = TrimOnePair(saved[Triple(call.component, call.configType, a)], {Quote})

\* C8: a Delete the backend does not fail returns success whether or not the key
\* exists, and leaves the store as it is minus the key of the attribute.
C8_DeleteStep ==
    (call'.op = "Delete" /\ call' # call /\ call'.berr = Nil)
    => /\ call'.err = Nil
       /\ LET key == StoredKey(call'.component, call'.configType, call'.attr)
          IN  kv' = [k \in (DOMAIN kv) \ {key} |-> kv[k]]

C8_DeleteIsIdempotent == [][C8_DeleteStep]_vars

\* a second Delete right after a first one, on an attribute that was not stored
C8_Witness ==
    /\ call.op = "Delete"
    /\ call.again
    /\ ~call.existed
    /\ call.err = Nil

ListOps == {"listComponentNameConfig", "clcListComponentNameConfig"}
GlobalDefault == Triple(defaultComponentName, ConfigTypeLogLevel, defaultPackageName)
OwnDefault(l) == Triple(l, ConfigTypeLogLevel, defaultPackageName)

\* C9: when the global default is stored with a level and the component has no
\* default of its own, the component's configuration has default -> that level
\* and otherwise exactly what RetrieveAll reports for the component.
C9_GlobalFallback ==
    (/\ call.op \in ListOps
     /\ call.err = Nil
     /\ call.berrGlobal = Nil
     /\ call.component # defaultComponentName
     /\ GlobalDefault \in DOMAIN saved
     /\ StringToLogLevelOk(saved[GlobalDefault])
     /\ OwnDefault(call.component) \notin DOMAIN saved)
    => LET own == RetrieveAll(InitComponentConfig(call.component, ConfigTypeLogLevel), Nil).res
       IN  /\ DOMAIN call.res = (DOMAIN own) \cup {defaultPackageName}
           /\ call.res[defaultPackageName] = saved[GlobalDefault]
           /\ \A a \in DOMAIN own : call.res[a] = own[a]

\* X has only pkgA, global has default INFO: X's configuration has both
C9_Witness ==
    /\ call.op \in ListOps
    /\ call.err = Nil
    /\ call.component = StrX
    /\ GlobalDefault \in DOMAIN saved
    /\ saved[GlobalDefault] = StrINFO
    /\ DOMAIN saved = {GlobalDefault, Triple(StrX, ConfigTypeLogLevel, StrPkgA)}
    /\ DOMAIN call.res = {defaultPackageName, StrPkgA}
    /\ call.res[defaultPackageName] = StrINFO

\* C10: when global has default -> INFO and the component has its own default
\* saved with DEBUG, the component's configuration reports default -> DEBUG.
C10_LocalOverrideShadowsGlobal ==
    (/\ call.op \in ListOps
     /\ call.err = Nil
     /\ call.berrGlobal = Nil
     /\ call.component # defaultComponentName
     /\ GlobalDefault \in DOMAIN saved
     /\ saved[GlobalDefault] = StrINFO
     /\ OwnDefault(call.component) \in DOMAIN saved
     /\ saved[OwnDefault(call.component)] = StrDEBUG)
    => /\ defaultPackageName \in DOMAIN call.res
       /\ call.res[defaultPackageName] = StrDEBUG

\* the segment /<configTypeString>/ occurs in /<componentLabel>/
LabelHoldsType(componentLabel, configType) ==
    Contains(<<"/">> \o componentLabel \o <<"/">>,
             <<"/">> \o ConfigTypeString(configType) \o <<"/">>)

RoundTripExact ==
    /\ ~call.panic
    /\ \E e \in call.list :
          /\ call.list = {e}
          /\ e.ComponentName = call.component
          /\ e.PackageName = call.attr

\* C11 as claimed: for every label, type and attribute name, parsing the built key
\* gives back the label and the attribute name.
C11_RoundTripForEveryLabel ==
    call.op = "roundTrip" => RoundTripExact

\* C11 as amended: the same for every label in which the segment /<configTypeString>/
\* of the handle's type does not occur.
C11_RoundTripWithoutTypeInLabel ==
    (call.op = "roundTrip" /\ ~LabelHoldsType(call.component, call.configType))
    => RoundTripExact

\* an attribute name with separators and the type segment inside is parsed back whole
C11_Witness ==
    /\ call.op = "roundTrip"
    /\ call.component = <<"X", "/", "Y">>
    /\ call.configType = ConfigTypeLogLevel
    /\ call.attr = <<"a", "/">> \o StrLoglevel \o <<"/", "b">>
    /\ RoundTripExact

\* C12: when a listed key does not hold the segment /<configTypeString>/ of the
\* handle's type, RetrieveList returns an error value: it does not crash and
\* returns no entry.
C12_MalformedKeyIsAnError ==
    (/\ call.op = "RetrieveList"
     /\ call.berr = Nil
     /\ \E k \in DOMAIN kv :
           ~Contains(k, <<"/">> \o ConfigTypeString(call.configType) \o <<"/">>))
    => /\ ~call.panic
       /\ call.err # Nil
       /\ call.list = {}

\* the entries RetrieveList is to return for the saved attributes
SavedEntries ==
    {[ComponentName |-> x[1], PackageName |-> x[3], Level |-> TrimOnePair(saved[x], {Quote})] :
        x \in DOMAIN saved}

ListedExactly ==
    /\ ~call.panic
    /\ call.err = Nil
    /\ call.len = Cardinality(DOMAIN saved)
    /\ call.list = SavedEntries

\* C13 as claimed: when only one configType has been saved to, RetrieveList on any
\* handle of that type returns exactly one entry per stored key, with the component,
\* the attribute name and the unquoted value of its Save.
C13_ListsEveryComponent ==
    (/\ call.op = "RetrieveList"
     /\ call.berr = Nil
     /\ \A x \in DOMAIN saved : x[2] = call.configType)
    => ListedExactly

\* C13 as amended: the same when no saved component label holds the segment
\* /<configTypeString>/ of that type.
C13_ListsEveryComponentWithoutTypeInLabel ==
    (/\ call.op = "RetrieveList"
     /\ call.berr = Nil
     /\ \A x \in DOMAIN saved : x[2] = call.configType /\ ~LabelHoldsType(x[1], x[2]))
    => ListedExactly

\* a handle of component X lists the keys of two components
C13_Witness ==
    /\ call.op = "RetrieveList"
    /\ call.component = StrX
    /\ call.configType = ConfigTypeKafka
    /\ DOMAIN saved = {Triple(StrX, ConfigTypeKafka, defaultPackageName),
                       Triple(StrLoglevel, ConfigTypeKafka, StrPkgA)}
    /\ call.len = 2
    /\ ListedExactly

\* the component an argument names, the package name it names after the first #, and
\* that name with each separator written as #
ArgComponent(arg) == SplitN2(arg, <<"#">>)[1]
ArgPackageName(arg) == SplitN2(arg, <<"#">>)[2]
Encoded(p) == [i \in 1..Len(p) |-> IF p[i] = "/" THEN "#" ELSE p[i]]

RequestedComponents ==
    IF call.args = << >>
    THEN {defaultComponentName}
    ELSE {ArgComponent(call.args[i]) : i \in DOMAIN call.args}

\* C14: when a set command with several components has a failing Save, a Save has
\* been made on every requested component, and each failed Save has a Failure row
\* with its error against its component.
C14_BatchSetIsNotShortCircuited ==
    (/\ call.op \in {"SetLogLevel", "ClcSetLogLevel"}
     /\ call.cmCreated
     /\ Len(call.args) >= 2
     /\ \E i \in DOMAIN call.attempts : call.attempts[i].err # Nil)
    => /\ ~call.panic
       /\ \A c \in RequestedComponents :
             \E i \in DOMAIN call.attempts :
                 call.attempts[i].component = c /\ call.attempts[i].handle = c
       /\ \A i \in DOMAIN call.attempts :
             call.attempts[i].err # Nil =>
                 \E j \in DOMAIN call.output :
                     call.output[j] = [ComponentName |-> call.attempts[i].component,
                                       Status |-> "Failure",
                                       Error |-> call.attempts[i].err]

\* C15: a clear command with n >= 1 arguments has made a Delete on the (component,
\* package) pair of each argument and reports n results.
C15_BatchClearAttemptsEveryArgument ==
    (/\ call.op \in {"ClearLogLevels", "ClcClearLogLevels"}
     /\ call.cmCreated
     /\ Len(call.args) >= 1)
    => /\ ~call.panic
       /\ \A i \in DOMAIN call.args :
             \E j \in DOMAIN call.attempts :
                 /\ call.attempts[j].component = processCommandArgs(call.args[i]).ComponentName
                 /\ call.attempts[j].handle = call.attempts[j].component
                 /\ call.attempts[j].package = processCommandArgs(call.args[i]).PackageName
       /\ Len(call.output) = Len(call.args)

\* a set command whose i-th argument is component#p has saved it, and the next
\* command is a successful list of that component
SetThenList(i) ==
    /\ call.op = "SetLogLevel"
    /\ call.cmCreated
    /\ i \in DOMAIN call.args
    /\ Contains(call.args[i], <<"#">>)
    /\ call.attempts[i].err = Nil
    /\ call'.op = "ListLogLevels"
    /\ call'.cmCreated
    /\ call'.err = Nil
    /\ call'.args # << >>
    /\ call'.args[1] = ArgComponent(call.args[i])

\* the name is stored encoded and listed as it was given
NameRoundTrips(arg) ==
    /\ StoredKey(ArgComponent(arg), ConfigTypeLogLevel, Encoded(ArgPackageName(arg))) \in DOMAIN kv
    /\ \E row \in call'.data :
          /\ row.ComponentName = ArgComponent(arg)
          /\ row.PackageName = ArgPackageName(arg)

C16_EveryNameStep ==
    \A i \in DOMAIN call.args : SetThenList(i) => NameRoundTrips(call.args[i])

\* C16 as claimed: for every package name p given as component#p, set stores the
\* level under the key with p's separators written as #, and a list of that component
\* reports the package name p.
C16_EveryPackageNameRoundTrips == [][C16_EveryNameStep]_vars

C16_PlainNameStep ==
    \A i \in DOMAIN call.args :
        (/\ SetThenList(i)
         /\ ArgPackageName(call.args[i]) # EmptyString
         /\ ~Contains(ArgPackageName(call.args[i]), <<"#">>)
         /\ call.level \in {StrDEBUG, StrINFO, StrWARN, StrERROR, StrFATAL})
        => NameRoundTrips(call.args[i])

\* C16 as amended: the same for every package name p that is not empty and holds no
\* #, set with a log level, when the list directly follows the set.
C16_PlainPackageNameRoundTrips == [][C16_PlainNameStep]_vars

\* X#pkgA/pkgB is stored under pkgA#pkgB and listed as pkgA/pkgB
C16_Witness ==
    /\ call.op = "ListLogLevels"
    /\ call.args = <<StrX>>
    /\ StoredKey(StrX, ConfigTypeLogLevel, StrPkgAHashB) \in DOMAIN kv
    /\ [ComponentName |-> StrX, PackageName |-> StrPkgASlashB, Level |-> StrDEBUG] \in call.data

\* C19: asking for a config manager on a store kind other than etcd returns the
\* unsupported-store error and no ConfigManager, and a ConfigManager returned always
\* has a client.
C19_UnsupportedKindYieldsNoManager ==
    /\ (call.op \in {"setKVClient", "setConfigManager"} /\ call.kind # "etcd")
          => (call.err = UnsupportedKVStore /\ ~call.cmCreated)
    /\ call.cmCreated => call.client

\* the key a Save or Delete call names
CallKey(c) == StoredKey(c.component, c.configType, c.attr)

\* the attribute names saved for a component and configType
SavedNames(componentLabel, configType) ==
    {x[3] : x \in {y \in DOMAIN saved : y[1] = componentLabel /\ y[2] = configType}}

C17_IsolationStep ==
    /\ call'.op \in {"Save", "Delete"} =>
          \A k \in (DOMAIN kv) \cup (DOMAIN kv') :
              k # CallKey(call') => (k \in DOMAIN kv /\ k \in DOMAIN kv' /\ kv'[k] = kv[k])
    /\ (call'.op = "RetrieveAll" /\ call'.err = Nil) =>
          DOMAIN call'.res = SavedNames(call'.component, call'.configType)

\* C17: a Save or Delete for (c, t, a) leaves every stored key other than the key of
\* (c, t, a) present and with its value, and RetrieveAll for (c, t) returns entries
\* only for the attributes saved for (c, t).
C17_KeyIsolation == [][C17_IsolationStep]_vars

\* RetrieveAll on X/loglevel returns its one entry while X/kafka and global hold keys
C17_Witness ==
    /\ call.op = "RetrieveAll"
    /\ call.component = StrX
    /\ call.configType = ConfigTypeLogLevel
    /\ DOMAIN call.res = {defaultPackageName}
    /\ \E x \in DOMAIN saved : x[1] = StrX /\ x[2] = ConfigTypeKafka /\ x[3] = defaultPackageName

C18_ErrorStep ==
    call'.op \in {"Save", "Delete", "RetrieveAll", "RetrieveList"} =>
        /\ call'.berr # Nil =>
              /\ ~call'.panic
              /\ call'.err = call'.berr
              /\ kv' = kv
              /\ call'.op \in {"RetrieveAll", "RetrieveList"} =>
                    (call'.isNil /\ call'.res = NilMap /\ call'.list = {} /\ call'.len = 0)
        /\ (~call'.panic /\ call'.err = Nil) => call'.berr = Nil

\* C18: when the backend call of Save, Delete, RetrieveAll or RetrieveList fails, the
\* method returns that error, the store is as before, the two retrieve methods
\* return a nil result, and a method returns nil only when the backend call succeeded.
C18_BackendErrorsAreReturned == [][C18_ErrorStep]_vars

\* RetrieveList fails on a store that holds keys
C18_Witness ==
    /\ call.op = "RetrieveList"
    /\ call.berr = BackendUnavailable
    /\ call.err = BackendUnavailable
    /\ call.isNil
    /\ DOMAIN kv # {}

\* the persisted layout, written out
LayoutTypeString(configType) ==
    IF configType = ConfigTypeLogLevel
    THEN <<"l", "o", "g", "l", "e", "v", "e", "l">>
    ELSE <<"k", "a", "f", "k", "a">>
LayoutBase(componentLabel, configType) ==
    <<"c", "o", "n", "f", "i", "g", "/">> \o componentLabel \o <<"/">> \o LayoutTypeString(configType)
LayoutStorePrefix ==
    <<"/", "s", "e", "r", "v", "i", "c", "e", "/", "v", "o", "l", "t", "h", "a", "/">>
LayoutKey(componentLabel, configType, attr) ==
    LayoutStorePrefix \o LayoutBase(componentLabel, configType) \o <<"/">> \o attr

C20_LayoutStep ==
    LET K == LayoutKey(handle'.componentLabel, handle'.configType, call'.attr)
    IN  /\ (call'.op = "Save" /\ call'.err = Nil) =>
              kv' = [k \in (DOMAIN kv) \cup {K} |-> IF k = K THEN call'.value ELSE kv[k]]
        /\ (call'.op = "Delete" /\ call'.err = Nil) =>
              kv' = [k \in (DOMAIN kv) \ {K} |-> kv[k]]
        /\ (call'.op = "RetrieveAll" /\ call'.err = Nil) =>
              DOMAIN call'.res =
                  {a \in AttributeNames :
                      LayoutKey(handle'.componentLabel, handle'.configType, a) \in DOMAIN kv'}
        /\ handle' # NoHandle =>
              makeConfigPath(handle') = LayoutBase(handle'.componentLabel, handle'.configType)
        /\ \A i \in DOMAIN watches' :
              watches'[i].key =
                  LayoutStorePrefix \o LayoutBase(handle'.componentLabel, handle'.configType)

AllReturned ==
    /\ conc.procs # << >>
    /\ \A i \in DOMAIN conc.procs : conc.procs[i].pc = "done"

\* C21: when the concurrent calls through distinct handles have all returned, the
\* store is what the same calls give when made one after the other in any order, and
\* the ConfigManager's configPrefix and backend settings are as constructed.
C21_HandlesAreIndependent ==
    /\ AllReturned =>
          \A order \in Orders(DOMAIN conc.procs) :
              Sequentially(conc.base, conc.procs, order) = kv
    /\ cm = [KvStoreConfigPrefix |-> <<"c", "o", "n", "f", "i", "g">>,
             backend |-> [StoreType |-> "etcd",
                          PathPrefix |-> <<"/", "s", "e", "r", "v", "i", "c", "e",
                                           "/", "v", "o", "l", "t", "h", "a">>]]

\* a Save and a Delete of a stored key have both returned, on a watched handle's manager
C21_Witness ==
    /\ AllReturned
    /\ Len(conc.procs) = 2
    /\ conc.procs[1].op = "Save"
    /\ conc.procs[2].op = "Delete"
    /\ StoredKey(conc.procs[2].componentLabel, conc.procs[2].configType, defaultPackageName)
          \in DOMAIN conc.base
    /\ StoredKey(conc.procs[1].componentLabel, conc.procs[1].configType, defaultPackageName)
          \notin DOMAIN conc.base
    /\ Len(watches) = 1

\* what has been delivered on the channel a Monitor call returned, received or not yet
Delivered(i) == consumer[i].received \o chans[consumer[i].ch].buf

\* C22: with two MonitorForConfigChange calls on one handle, the task of each call
\* reads the raw stream of its own call and no other, nothing is delivered on the
\* channel a call returned beyond the events of its own raw stream, and once the
\* streams are drained every event of the first stream is on the first channel.
C22_EachMonitorCallHasItsOwnPipeline ==
    /\ \A i \in DOMAIN task :
          task[i].pc # "start" => task[i].rawCh = watches[i].ch
    /\ \A i \in DOMAIN watches :
          Len(Delivered(i)) <= Len(Forwarded(watches[i].sent))
    /\ \A i \in DOMAIN watches :
          (/\ \A j \in DOMAIN task : task[j].pc = "recv"
           /\ \A j \in DOMAIN watches : chans[watches[j].ch].buf = << >>)
          => Len(Delivered(i)) = Len(Forwarded(watches[i].sent))

\* C23: under fair scheduling of the translation task and of the consumer, the n-th
\* Put or Delete event placed on the raw stream is eventually received by the
\* consumer, whatever invalid events are placed around it and whether or not the raw
\* stream is closed afterwards.
C23_WatchDeliveryIsLive ==
    \A n \in 1..MaxRaw :
        (Len(watches) = 1 /\ Len(Forwarded(watches[1].sent)) >= n)
            ~> (Len(consumer) = 1 /\ Len(consumer[1].received) >= n)

\* an invalid event, then a Put or Delete, the stream closed, and the event received
C23_Witness ==
    /\ Len(watches) = 1
    /\ Len(watches[1].sent) >= 2
    /\ ~IsForwarded(watches[1].sent[1])
    /\ IsForwarded(watches[1].sent[2])
    /\ chans[watches[1].ch].closed
    /\ Len(consumer[1].received) = Len(Forwarded(watches[1].sent))

----------------------------------------------------------------------------
(* The rows, the level, the client and the arguments of the loglevel commands *)

SetCommands == {"SetLogLevel", "ClcSetLogLevel"}
ClearCommands == {"ClearLogLevels", "ClcClearLogLevels"}
ListCommands == {"ListLogLevels", "ClcListLogLevels"}

\* C24: a set or clear command that has returned has printed exactly one row for
\* each component it attempted, in order: Failure with the error when the Save or
\* Delete failed, Success otherwise, so a failed attempt has no Success row as well.
C24_OneRowPerAttemptedComponent ==
    (/\ call.op \in SetCommands \cup ClearCommands
     /\ call.cmCreated
     /\ ~call.panic)
    => /\ Len(call.output) = Len(call.attempts)
       /\ \A i \in DOMAIN call.attempts :
             /\ i \in DOMAIN call.output
             /\ call.output[i].ComponentName = call.attempts[i].component
             /\ call.output[i].Status = "Success" <=> call.attempts[i].err = Nil
             /\ call.output[i].Status = "Failure" <=> call.attempts[i].err # Nil
             /\ call.output[i].Error = call.attempts[i].err

\* C25: a set command whose level is not one of the log levels (the empty string
\* included) has returned an error without creating a configuration manager and
\* without a Save, and every value in the store is a log level.
C25_SetValidatesTheLevelFirst ==
    /\ (call.op \in SetCommands /\ call.level \notin {StrDEBUG, StrINFO, StrWARN, StrERROR, StrFATAL})
       => /\ call.err # Nil
          /\ ~call.cmCreated
          /\ call.attempts = << >>
    /\ \A k \in DOMAIN kv : kv[k] \in {StrDEBUG, StrINFO, StrWARN, StrERROR, StrFATAL}

\* C26: a set, list or clear command that has returned after creating its
\* configuration manager has closed the backend client exactly once.
C26_ClientClosedOnEveryExit ==
    (/\ call.op \in SetCommands \cup ClearCommands \cup ListCommands
     /\ call.cmCreated
     /\ ~call.panic)
    => call.closes = 1

\* C27: a set command has made a Save on the (component, package) pair of every one
\* of its arguments, two arguments of one component included, and with no argument
\* exactly one Save on the global component and the default package.
C27_EveryArgumentOfSetIsApplied ==
    (/\ call.op \in SetCommands
     /\ call.cmCreated)
    => /\ ~call.panic
       /\ call.args = << >>
          => /\ Len(call.attempts) = 1
             /\ call.attempts[1].component = defaultComponentName
             /\ call.attempts[1].handle = defaultComponentName
             /\ call.attempts[1].package = defaultPackageName
       /\ \A i \in DOMAIN call.args :
             \E j \in DOMAIN call.attempts :
                 /\ call.attempts[j].component = processCommandArgs(call.args[i]).ComponentName
                 /\ call.attempts[j].handle = call.attempts[j].component
                 /\ call.attempts[j].package = processCommandArgs(call.args[i]).PackageName

\* C28: a list command with two or more component arguments has returned the error
\* "Please don't specify more than one component name" without a configuration
\* manager and so without a read; with one argument its rows are of that component,
\* and with none every component with a stored log level has a row.
C28_ListRejectsMoreThanOneComponent ==
    call.op \in ListCommands
    => /\ Len(call.args) >= 2
          => /\ call.err = ErrMoreThanOneComponent
             /\ ~call.cmCreated
             /\ call.data = {}
       /\ (Len(call.args) = 1 /\ call.err = Nil)
          => \A row \in call.data : row.ComponentName = call.args[1]
       /\ (Len(call.args) = 0 /\ call.err = Nil /\ ~call.panic /\ call.cmCreated)
          => \A k \in DOMAIN kv :
                 kv[k] \in {StrDEBUG, StrINFO, StrWARN, StrERROR, StrFATAL}
                 => \E row \in call.data : row.Level = kv[k]

====
